---- MODULE Spec2Model ----
(***************************************************************************)
(* A model of the arduino-fsm engine (src/Fsm.h, src/Fsm.cpp): the Fsm     *)
(* object, its two registration lists, trigger(), run_machine() and the    *)
(* millis() clock it reads.  State callbacks and transition actions are    *)
(* user code; the model records each invocation in a log (calls) and in    *)
(* per-state counters, which is what an instrumented sketch observes.      *)
(***************************************************************************)
EXTENDS Integers, Sequences, FiniteSets, TLC

\* ------------------------------------------------------------------ bounds

\* Width of the millis() counter in the model (unsigned long, scaled down).
ClockBits == 10
\* Most entries the sketch registers, both lists together.
MaxRegistrations == 3
\* Largest clock reading the host lets pass before it stops advancing time.
MaxClock == 2
\* Most enter() invocations a behaviour observes in total.
MaxEnters == 4
\* Largest clock reading at which the end-to-end scenario starts.
MaxEpoch == 24

Modulus == 2 ^ ClockBits

\* ---------------------------------------------------------------- universe

\* StateInterface objects of the sketch; Null is the nullptr.
States == {"IDLE", "RUNNING", "ERROR"}
Null == "nullptr"
\* The state handed to the constructor Fsm(initial_state).
InitialState == "IDLE"
\* Event identifiers used by the sketch (int).
Event == [NONE |-> 0, START |-> 1, RESET |-> 2]
Events == {Event.NONE, Event.START, Event.RESET}
\* on_transition is either nullptr or a bound action.

VARIABLES
  m_current_state,      \* Fsm::m_current_state
  m_transitions,        \* Fsm::m_transitions, the linked list as a sequence
  m_timed_transitions,  \* Fsm::m_timed_transitions, likewise
  m_initialized,        \* Fsm::m_initialized
  clock,                \* the reading millis() returns
  calls,                \* callbacks invoked by the most recent operation
  performed,            \* transitions performed by the most recent operation
  enter_count,          \* enter() invocations per state since construction
  exit_count,           \* exit() invocations per state since construction
  entered_at,           \* clock reading at which m_current_state was entered
  regs_at_entry,        \* Len(m_timed_transitions) at that moment
  last_op,              \* the most recent operation and its outcome
  pc                    \* position of the host sketch in a scripted scenario

vars == <<m_current_state, m_transitions, m_timed_transitions, m_initialized,
          clock, calls, performed, enter_count, exit_count, entered_at,
          regs_at_entry, last_op, pc>>

\* entered_at before any enter() has run.
NoReading == 0 - 1

\* millis(): the clock is read, never written, by the engine.  A handler is
\* short against a millisecond: every read inside one call of trigger() or
\* run_machine() returns the same reading, and time passes between calls.
millis == clock

\* The engine as one value, so that a handler is a function from engine to
\* engine and loops are recursion over the list index.
Engine ==
  [m_current_state |-> m_current_state,
   m_transitions |-> m_transitions,
   m_timed_transitions |-> m_timed_transitions,
   m_initialized |-> m_initialized,
   calls |-> <<>>,
   performed |-> <<>>,
   enter_count |-> enter_count,
   exit_count |-> exit_count,
   entered_at |-> entered_at,
   regs_at_entry |-> regs_at_entry]

\* One callback invocation: which callback, on which object, and what
\* get_current_state() returns while it runs.
Invoke(E, cb, on) ==
  [E EXCEPT !.calls = Append(@, [cb |-> cb, on |-> on,
                                 cur |-> E.m_current_state])]

\* StateInterface::enter / state / exit and TransitionInterface::transition.
enter(E, s) ==
  [Invoke(E, "enter", s) EXCEPT !.enter_count[s] = @ + 1]

state(E, s) == Invoke(E, "state", s)

exit(E, s) ==
  [Invoke(E, "exit", s) EXCEPT !.exit_count[s] = @ + 1]

transition(E, t) ==
  IF t.on_transition # Null THEN Invoke(E, "transition", t.on_transition)
  ELSE E

\* now - start in unsigned arithmetic of ClockBits bits.
Elapsed(now, start) == (now - start) % Modulus

\* reset_timers that leaves every start as it was.
reset_timers_skipped(E) == E

reset_timers(E) ==
  LET now == millis IN
  [E EXCEPT !.m_timed_transitions =
     [i \in DOMAIN @ |->
        IF @[i].transition.state_from = E.m_current_state
        THEN [@[i] EXCEPT !.start = now]
        ELSE @[i]]]

\* make_transition that commits the new state before the callbacks run.
make_transition_commit_first(E, t) ==
  LET E0 == [E EXCEPT !.m_current_state = t.state_to,
                      !.entered_at = millis,
                      !.regs_at_entry = Len(E.m_timed_transitions)]
      E1 == exit(E0, t.state_from)
      E2 == transition(E1, t)
      E3 == enter(E2, t.state_to)
  IN reset_timers(E3)

\* make_transition that leaves the old state without calling its exit.
make_transition_no_exit(E, t) ==
  LET E2 == transition(E, t)
      E3 == enter(E2, t.state_to)
      E4 == [E3 EXCEPT !.m_current_state = t.state_to,
                       !.entered_at = millis,
                       !.regs_at_entry = Len(E.m_timed_transitions)]
  IN reset_timers(E4)

\* make_transition with the new state set up before the old one is left.
make_transition_enter_first(E, t) ==
  LET E1 == enter(E, t.state_to)
      E2 == exit(E1, t.state_from)
      E3 == transition(E2, t)
      E4 == [E3 EXCEPT !.m_current_state = t.state_to,
                       !.entered_at = millis,
                       !.regs_at_entry = Len(E.m_timed_transitions)]
  IN reset_timers(E4)

make_transition(E, t) ==
  LET E1 == exit(E, t.state_from)
      E2 == transition(E1, t)
      E3 == enter(E2, t.state_to)
      E4 == [E3 EXCEPT !.m_current_state = t.state_to,
                       !.entered_at = millis,
                       !.regs_at_entry = Len(E.m_timed_transitions)]
  IN reset_timers(E4)

\* Ghost: note that transition t was selected, and in which circumstances.
Select(E, t, kind, idx, start, interval) ==
  [E EXCEPT !.performed =
     Append(@, [t |-> t, kind |-> kind, idx |-> idx,
                cur |-> E.m_current_state, now |-> millis,
                start |-> start, interval |-> interval,
                since |-> E.entered_at])]

RECURSIVE trigger_scan(_, _, _)
trigger_scan(E, event, i) ==
  IF i > Len(E.m_transitions) THEN E
  ELSE LET t == E.m_transitions[i] IN
       IF t.state_from = E.m_current_state /\ t.event = event
       THEN make_transition(Select(E, t, "event", i, 0, 0), t)
       ELSE trigger_scan(E, event, i + 1)

\* trigger whose scan goes on after a match, from the state it arrived in.
RECURSIVE trigger_scan_on(_, _, _)
trigger_scan_on(E, event, i) ==
  IF i > Len(E.m_transitions) THEN E
  ELSE LET t == E.m_transitions[i] IN
       IF t.state_from = E.m_current_state /\ t.event = event
       THEN trigger_scan_on(make_transition(Select(E, t, "event", i, 0, 0), t),
                            event, i + 1)
       ELSE trigger_scan_on(E, event, i + 1)

trigger_no_return(E, event) ==
  IF E.m_initialized THEN trigger_scan_on(E, event, 1) ELSE E

\* trigger that re-arms the current state's timers when nothing matched.
RECURSIVE trigger_scan_rearm(_, _, _)
trigger_scan_rearm(E, event, i) ==
  IF i > Len(E.m_transitions) THEN reset_timers(E)
  ELSE LET t == E.m_transitions[i] IN
       IF t.state_from = E.m_current_state /\ t.event = event
       THEN make_transition(Select(E, t, "event", i, 0, 0), t)
       ELSE trigger_scan_rearm(E, event, i + 1)

trigger_rearm(E, event) ==
  IF E.m_initialized THEN trigger_scan_rearm(E, event, 1) ELSE E

\* trigger that falls back on the timed list when no event transition matched.
RECURSIVE trigger_scan_timed(_, _, _)
trigger_scan_timed(E, event, i) ==
  IF i > Len(E.m_timed_transitions) THEN E
  ELSE LET t == E.m_timed_transitions[i].transition IN
       IF t.state_from = E.m_current_state /\ t.event = event
       THEN make_transition(Select(E, t, "event", i, 0, 0), t)
       ELSE trigger_scan_timed(E, event, i + 1)

trigger_any_list(E, event) ==
  IF E.m_initialized
  THEN LET E1 == trigger_scan(E, event, 1) IN
       IF E1.performed # <<>> THEN E1 ELSE trigger_scan_timed(E, event, 1)
  ELSE E

\* trigger without the m_initialized test.
trigger_unguarded(E, event) == trigger_scan(E, event, 1)

trigger(E, event) ==
  IF E.m_initialized THEN trigger_scan(E, event, 1) ELSE E

RECURSIVE check_scan(_, _)
check_scan(E, i) ==
  IF i > Len(E.m_timed_transitions) THEN E
  ELSE LET tt == E.m_timed_transitions[i] IN
       IF tt.transition.state_from = E.m_current_state
       THEN IF tt.start = 0
            THEN check_scan([E EXCEPT !.m_timed_transitions[i].start = millis],
                            i + 1)
            ELSE IF Elapsed(millis, tt.start) >= tt.interval
                 THEN LET E1 == Select(E, tt.transition, "timed", i,
                                       tt.start, tt.interval)
                          E2 == make_transition(E1, tt.transition)
                      IN check_scan(
                           [E2 EXCEPT !.m_timed_transitions[i].start = 0],
                           i + 1)
                 ELSE check_scan(E, i + 1)
       ELSE check_scan(E, i + 1)

\* check_timed_transitions that unarms the timer before the protocol runs.
RECURSIVE check_scan_reset_first(_, _)
check_scan_reset_first(E, i) ==
  IF i > Len(E.m_timed_transitions) THEN E
  ELSE LET tt == E.m_timed_transitions[i] IN
       IF tt.transition.state_from = E.m_current_state
       THEN IF tt.start = 0
            THEN check_scan_reset_first(
                   [E EXCEPT !.m_timed_transitions[i].start = millis], i + 1)
            ELSE IF Elapsed(millis, tt.start) >= tt.interval
                 THEN LET E1 == Select(E, tt.transition, "timed", i,
                                       tt.start, tt.interval)
                          E2 == [E1 EXCEPT !.m_timed_transitions[i].start = 0]
                      IN check_scan_reset_first(
                           make_transition(E2, tt.transition), i + 1)
                 ELSE check_scan_reset_first(E, i + 1)
       ELSE check_scan_reset_first(E, i + 1)

check_timed_transitions_reset_first(E) == check_scan_reset_first(E, 1)

\* check_timed_transitions that arms every unarmed timer it walks over.
RECURSIVE check_scan_arm_all(_, _)
check_scan_arm_all(E, i) ==
  IF i > Len(E.m_timed_transitions) THEN E
  ELSE LET tt == E.m_timed_transitions[i] IN
       IF tt.start = 0
       THEN check_scan_arm_all(
              [E EXCEPT !.m_timed_transitions[i].start = millis], i + 1)
       ELSE IF /\ tt.transition.state_from = E.m_current_state
               /\ Elapsed(millis, tt.start) >= tt.interval
            THEN LET E1 == Select(E, tt.transition, "timed", i,
                                  tt.start, tt.interval)
                     E2 == make_transition(E1, tt.transition)
                 IN check_scan_arm_all(
                      [E2 EXCEPT !.m_timed_transitions[i].start = 0], i + 1)
            ELSE check_scan_arm_all(E, i + 1)

check_timed_transitions_arm_all(E) == check_scan_arm_all(E, 1)

\* check_timed_transitions that returns after the first transition it fired.
RECURSIVE check_scan_stop(_, _)
check_scan_stop(E, i) ==
  IF i > Len(E.m_timed_transitions) THEN E
  ELSE LET tt == E.m_timed_transitions[i] IN
       IF tt.transition.state_from = E.m_current_state
       THEN IF tt.start = 0
            THEN check_scan_stop(
                   [E EXCEPT !.m_timed_transitions[i].start = millis], i + 1)
            ELSE IF Elapsed(millis, tt.start) >= tt.interval
                 THEN LET E1 == Select(E, tt.transition, "timed", i,
                                       tt.start, tt.interval)
                          E2 == make_transition(E1, tt.transition)
                      IN [E2 EXCEPT !.m_timed_transitions[i].start = 0]
                 ELSE check_scan_stop(E, i + 1)
       ELSE check_scan_stop(E, i + 1)

check_timed_transitions_stop(E) == check_scan_stop(E, 1)

\* check_timed_transitions that tests a start of 0 like any other reading.
RECURSIVE check_scan_no_sentinel(_, _)
check_scan_no_sentinel(E, i) ==
  IF i > Len(E.m_timed_transitions) THEN E
  ELSE LET tt == E.m_timed_transitions[i] IN
       IF tt.transition.state_from = E.m_current_state
       THEN IF Elapsed(millis, tt.start) >= tt.interval
            THEN LET E1 == Select(E, tt.transition, "timed", i,
                                  tt.start, tt.interval)
                     E2 == make_transition(E1, tt.transition)
                 IN check_scan_no_sentinel(
                      [E2 EXCEPT !.m_timed_transitions[i].start = 0], i + 1)
            ELSE check_scan_no_sentinel(E, i + 1)
       ELSE check_scan_no_sentinel(E, i + 1)

check_timed_transitions_no_sentinel(E) == check_scan_no_sentinel(E, 1)

\* check_timed_transitions that fires only when more than interval passed.
RECURSIVE check_scan_late(_, _)
check_scan_late(E, i) ==
  IF i > Len(E.m_timed_transitions) THEN E
  ELSE LET tt == E.m_timed_transitions[i] IN
       IF tt.transition.state_from = E.m_current_state
       THEN IF tt.start = 0
            THEN check_scan_late(
                   [E EXCEPT !.m_timed_transitions[i].start = millis], i + 1)
            ELSE IF Elapsed(millis, tt.start) > tt.interval
                 THEN LET E1 == Select(E, tt.transition, "timed", i,
                                       tt.start, tt.interval)
                          E2 == make_transition(E1, tt.transition)
                      IN check_scan_late(
                           [E2 EXCEPT !.m_timed_transitions[i].start = 0],
                           i + 1)
                 ELSE check_scan_late(E, i + 1)
       ELSE check_scan_late(E, i + 1)

check_timed_transitions_late(E) == check_scan_late(E, 1)

check_timed_transitions(E) == check_scan(E, 1)

\* run_machine that ticks after the timed transitions were evaluated.
run_machine_tick_last(E) ==
  LET E1 == IF ~E.m_initialized
            THEN enter([E EXCEPT !.m_initialized = TRUE,
                                 !.entered_at = millis,
                                 !.regs_at_entry = Len(E.m_timed_transitions)],
                       E.m_current_state)
            ELSE E
      E2 == check_timed_transitions(E1)
  IN state(E2, E2.m_current_state)

\* run_machine that invokes enter on every call.
run_machine_reenter(E) ==
  LET E1 == enter([E EXCEPT !.m_initialized = TRUE,
                            !.entered_at = millis,
                            !.regs_at_entry = Len(E.m_timed_transitions)],
                  E.m_current_state)
      E2 == state(E1, E1.m_current_state)
  IN check_timed_transitions(E2)

run_machine(E) ==
  LET E1 == IF ~E.m_initialized
            THEN enter([E EXCEPT !.m_initialized = TRUE,
                                 !.entered_at = millis,
                                 !.regs_at_entry = Len(E.m_timed_transitions)],
                       E.m_current_state)
            ELSE E
      E2 == state(E1, E1.m_current_state)
  IN check_timed_transitions(E2)

\* A TransitionInterface pointer: <<>> is nullptr, <<node>> points to node.
NullTransition == <<>>

\* create_transition without the endpoint test.
create_transition_unchecked(state_from, state_to, event, on_transition) ==
  <<[state_from |-> state_from, state_to |-> state_to,
     event |-> event, on_transition |-> on_transition]>>

\* create_transition: nullptr for a null endpoint, else the filled-in node.
create_transition(state_from, state_to, event, on_transition) ==
  IF state_from = Null \/ state_to = Null THEN NullTransition
  ELSE <<[state_from |-> state_from, state_to |-> state_to,
          event |-> event, on_transition |-> on_transition]>>

\* add_transition that links the new entry at the head of the list.
add_transition_prepend(E, t) ==
  IF t = NullTransition THEN E
  ELSE [E EXCEPT !.m_transitions = <<t[1]>> \o @]

\* add_transition(TransitionInterface *): append at the tail.
add_transition(E, t) ==
  IF t = NullTransition THEN E
  ELSE [E EXCEPT !.m_transitions = Append(@, t[1])]

\* add_timed_transition(interval, TransitionInterface *): the timed entry
\* starts unarmed (start = 0) and is appended at the tail.
add_timed_transition(E, interval, t) ==
  IF t = NullTransition THEN E
  ELSE [E EXCEPT !.m_timed_transitions =
          Append(@, [transition |-> t[1], start |-> 0,
                     interval |-> interval])]

\* ----------------------------------------------------------------- actions

\* The engine's fields and the observation log after a handler returned E.
Op(op, event, from, to, ok) ==
  [op |-> op, event |-> event, from |-> from, to |-> to, ok |-> ok]

Commit(E, op) ==
  /\ m_current_state' = E.m_current_state
  /\ m_transitions' = E.m_transitions
  /\ m_timed_transitions' = E.m_timed_transitions
  /\ m_initialized' = E.m_initialized
  /\ calls' = E.calls
  /\ performed' = E.performed
  /\ enter_count' = E.enter_count
  /\ exit_count' = E.exit_count
  /\ entered_at' = E.entered_at
  /\ regs_at_entry' = E.regs_at_entry
  /\ last_op' = op

Init ==
  /\ m_current_state = InitialState
  /\ m_transitions = <<>>
  /\ m_timed_transitions = <<>>
  /\ m_initialized = FALSE
  /\ clock \in {0, Modulus - 1}
  /\ calls = <<>>
  /\ performed = <<>>
  /\ enter_count = [s \in States |-> 0]
  /\ exit_count = [s \in States |-> 0]
  /\ entered_at = NoReading
  /\ regs_at_entry = 0
  /\ last_op = Op("Fsm", 0, Null, Null, TRUE)
  /\ pc = 0

\* Arguments the sketch passes to add_transition(from, to, event, action).
TransitionArgs ==
  { <<"IDLE", "RUNNING", Event.START, "on_transition">>,
    <<"IDLE", "IDLE", Event.START, Null>>,
    <<"RUNNING", "IDLE", Event.NONE, Null>>,
    <<Null, "RUNNING", Event.START, Null>>,
    <<"IDLE", Null, Event.START, "on_transition">> }

\* Arguments passed to add_timed_transition(from, to, interval, action).
TimedArgs ==
  { <<"IDLE", "RUNNING", 1, Null>>,
    <<"RUNNING", "RUNNING", 1, "on_transition">>,
    <<"RUNNING", "IDLE", 0, Null>>,
    <<Null, "IDLE", 1, Null>>,
    <<"RUNNING", Null, 1, "on_transition">> }

Total(f) == f["IDLE"] + f["RUNNING"] + f["ERROR"]

\* The host keeps calling into the engine while the observation budget lasts.
Budget == Total(enter_count) < MaxEnters

Registrations == Len(m_transitions) + Len(m_timed_transitions)

AddTransition ==
  /\ Registrations < MaxRegistrations
  /\ \E a \in TransitionArgs :
       LET t == create_transition(a[1], a[2], a[3], a[4]) IN
       Commit(add_transition(Engine, t),
              Op("add_transition", a[3], a[1], a[2], t # NullTransition))
  /\ UNCHANGED <<clock, pc>>

AddTimedTransition ==
  /\ Registrations < MaxRegistrations
  /\ \E a \in TimedArgs :
       LET t == create_transition(a[1], a[2], 0, a[4]) IN
       Commit(add_timed_transition(Engine, a[3], t),
              Op("add_timed_transition", 0, a[1], a[2], t # NullTransition))
  /\ UNCHANGED <<clock, pc>>

\* One call of trigger(event) / run_machine() by the host.
TriggerCall(e) ==
  /\ Commit(trigger(Engine, e), Op("trigger", e, Null, Null, TRUE))
  /\ UNCHANGED clock

RunCall ==
  /\ Commit(run_machine(Engine), Op("run_machine", 0, Null, Null, TRUE))
  /\ UNCHANGED clock

Trigger ==
  /\ Budget
  /\ \E e \in Events : TriggerCall(e)
  /\ UNCHANGED pc

Run ==
  /\ Budget
  /\ RunCall
  /\ UNCHANGED pc

\* Time passes between two calls of the host loop.
Tick(d) ==
  /\ clock' = (clock + d) % Modulus
  /\ calls' = <<>>
  /\ performed' = <<>>
  /\ last_op' = Op("millis", 0, Null, Null, TRUE)
  /\ UNCHANGED <<m_current_state, m_transitions, m_timed_transitions,
                 m_initialized, enter_count, exit_count, entered_at,
                 regs_at_entry>>

Advance ==
  /\ \E d \in {1, 2} : (clock + d) % Modulus <= MaxClock /\ Tick(d)
  /\ UNCHANGED pc

Next == AddTransition \/ AddTimedTransition \/ Trigger \/ Run \/ Advance

Spec == Init /\ [][Next]_vars

\* ---------------------------------------------------------------- scenario

\* The engine right after Fsm(InitialState).
NewEngine ==
  [m_current_state |-> InitialState,
   m_transitions |-> <<>>,
   m_timed_transitions |-> <<>>,
   m_initialized |-> FALSE,
   calls |-> <<>>,
   performed |-> <<>>,
   enter_count |-> [s \in States |-> 0],
   exit_count |-> [s \in States |-> 0],
   entered_at |-> NoReading,
   regs_at_entry |-> 0]

\* setup() of the spec's end-to-end sketch: IDLE -> RUNNING on START,
\* RUNNING -> ERROR after 1000 ms, ERROR -> IDLE on RESET.
ScenarioEngine ==
  LET E1 == add_transition(NewEngine,
              create_transition("IDLE", "RUNNING", Event.START, Null))
      E2 == add_timed_transition(E1, 1000,
              create_transition("RUNNING", "ERROR", 0, Null))
  IN add_transition(E2,
       create_transition("ERROR", "IDLE", Event.RESET, Null))

ScenarioInit ==
  /\ m_current_state = ScenarioEngine.m_current_state
  /\ m_transitions = ScenarioEngine.m_transitions
  /\ m_timed_transitions = ScenarioEngine.m_timed_transitions
  /\ m_initialized = ScenarioEngine.m_initialized
  /\ clock \in 0..MaxEpoch
  /\ calls = <<>>
  /\ performed = <<>>
  /\ enter_count = ScenarioEngine.enter_count
  /\ exit_count = ScenarioEngine.exit_count
  /\ entered_at = NoReading
  /\ regs_at_entry = 0
  /\ last_op = Op("add_transition", Event.RESET, "ERROR", "IDLE", TRUE)
  /\ pc = 0

\* loop() of the sketch: run(); trigger(START); 1000 ms pass; run();
\* trigger(RESET).
FirstRun == pc = 0 /\ RunCall /\ pc' = 1

TriggerStart == pc = 1 /\ TriggerCall(Event.START) /\ pc' = 2

Wait1000 == pc = 2 /\ Tick(1000) /\ pc' = 3

SecondRun == pc = 3 /\ RunCall /\ pc' = 4

TriggerReset == pc = 4 /\ TriggerCall(Event.RESET) /\ pc' = 5

ScenarioNext ==
  FirstRun \/ TriggerStart \/ Wait1000 \/ SecondRun \/ TriggerReset

SpecScenario == ScenarioInit /\ [][ScenarioNext]_vars

\* ------------------------------------------------------------------ claims

EngineFields == <<m_current_state, m_transitions, m_timed_transitions,
                  m_initialized>>

Counters == <<enter_count, exit_count>>

\* What an instrumented sketch sees of one invocation.
Seen(c) == <<c.cb, c.on>>

SeenCalls(cs) == [i \in DOMAIN cs |-> Seen(cs[i])]

\* The callbacks the Transition Protocol owes for the transitions ps.
RECURSIVE ProtocolCalls(_)
ProtocolCalls(ps) ==
  IF ps = <<>> THEN <<>>
  ELSE LET t == ps[1].t IN
       <<<<"exit", t.state_from>>>>
       \o (IF t.on_transition # Null
           THEN <<<<"transition", t.on_transition>>>> ELSE <<>>)
       \o <<<<"enter", t.state_to>>>>
       \o ProtocolCalls(Tail(ps))

\* Index of the first tick in the log of the last operation, 0 if none.
TickIndex ==
  IF \E i \in DOMAIN calls : calls[i].cb = "state"
  THEN CHOOSE i \in DOMAIN calls :
         /\ calls[i].cb = "state"
         /\ \A j \in 1..(i - 1) : calls[j].cb # "state"
  ELSE 0

\* The log of the last operation after its tick (all of it for trigger).
AfterTick == SubSeq(calls, TickIndex + 1, Len(calls))

\* C1: every transition performed by trigger() or by timed expiry in
\* run_machine() invokes exactly exit of its from state, then its action if
\* one is bound, then enter of its to state, with no other callback and no
\* tick in between, and its from state is the state that was current when
\* it was selected.
C1_ExitActionEnter ==
  /\ SeenCalls(AfterTick) = ProtocolCalls(performed)
  /\ \A i \in DOMAIN performed :
       performed[i].cur = performed[i].t.state_from
  /\ performed # <<>> => last_op.op \in {"trigger", "run_machine"}

\* A run_machine() that performed two timed transitions, one with an action.
C1_Witness ==
  /\ last_op.op = "run_machine"
  /\ Len(performed) = 2
  /\ \E i \in DOMAIN performed : performed[i].t.on_transition # Null
  /\ \E i \in DOMAIN performed : performed[i].t.on_transition = Null

\* Indices of the event transitions trigger(event) can select in state cur.
Matching(list, cur, event) ==
  {i \in DOMAIN list : list[i].state_from = cur /\ list[i].event = event}

Min(S) == CHOOSE x \in S : \A y \in S : x <= y

\* C2: trigger(e) on an initialized engine performs exactly one transition
\* when some registered event transition matches (from = current state,
\* event = e), namely the earliest registered one, and none otherwise.
C2_FirstMatch ==
  [][(last_op'.op = "trigger" /\ m_initialized) =>
       LET M == Matching(m_transitions, m_current_state, last_op'.event) IN
       IF M = {} THEN performed' = <<>>
       ELSE /\ Len(performed') = 1
            /\ performed'[1].kind = "event"
            /\ performed'[1].idx = Min(M)
            /\ performed'[1].t = m_transitions[Min(M)]
            /\ m_current_state' = m_transitions[Min(M)].state_to]_vars

\* trigger() chose the first of two matching transitions; the first one
\* leads back to the same state, where the second one matches again.
C2_Witness ==
  /\ last_op.op = "trigger"
  /\ Len(performed) = 1
  /\ performed[1].idx = 1
  /\ performed[1].t.state_to = performed[1].cur
  /\ Len(m_transitions) >= 2
  /\ m_transitions[2].state_from = performed[1].cur
  /\ m_transitions[2].event = last_op.event
  /\ m_transitions[2].state_to # performed[1].t.state_to

\* C3: trigger(event) before the first run_machine() changes nothing and
\* invokes no callback, whatever the event; and no exit is ever invoked
\* before the initial state's enter.
C3_TriggerBeforeRun ==
  [][/\ (last_op'.op = "trigger" /\ ~m_initialized) =>
          /\ UNCHANGED EngineFields
          /\ UNCHANGED Counters
          /\ calls' = <<>>
          /\ performed' = <<>>
     /\ ~m_initialized' => Total(exit_count') = 0
     /\ Total(exit_count') > 0 => enter_count'[InitialState] > 0]_vars

\* trigger(event) was called on an engine that has not run, with an event
\* that matches a transition out of the initial state.
C3_Witness ==
  /\ last_op.op = "trigger"
  /\ ~m_initialized
  /\ Matching(m_transitions, m_current_state, last_op.event) # {}
  /\ m_timed_transitions # <<>>

\* How often enter was invoked on state s by the last operation.
EntersOf(cs, s) ==
  Cardinality({i \in DOMAIN cs : cs[i].cb = "enter" /\ cs[i].on = s})

ArrivalsAt(ps, s) ==
  Cardinality({i \in DOMAIN ps : ps[i].t.state_to = s})

\* C4: the initial state's enter is not invoked at construction or by a
\* registration; the first run_machine() invokes it once, before anything
\* else; afterwards it is invoked only by a performed transition whose to is
\* the initial state; m_initialized goes from false to true in the first
\* run_machine() and never back.
C4_InitialEnterOnce ==
  [][/\ m_initialized => m_initialized'
     /\ m_initialized' # m_initialized => last_op'.op = "run_machine"
     /\ ~m_initialized' => Total(enter_count') = 0
     /\ last_op'.op \in {"add_transition", "add_timed_transition", "millis"}
          => calls' = <<>> /\ UNCHANGED Counters
     /\ (last_op'.op = "run_machine" /\ ~m_initialized) =>
          /\ m_initialized'
          /\ Seen(calls'[1]) = <<"enter", InitialState>>
          /\ EntersOf(calls', InitialState)
               = 1 + ArrivalsAt(performed', InitialState)
     /\ ~(last_op'.op = "run_machine" /\ ~m_initialized) =>
          /\ EntersOf(calls', InitialState)
               = ArrivalsAt(performed', InitialState)
          /\ enter_count'[InitialState]
               = enter_count[InitialState]
                 + ArrivalsAt(performed', InitialState)]_vars

\* A later run_machine() in the initial state: it ticks and does not enter.
C4_Witness ==
  /\ last_op.op = "run_machine"
  /\ m_current_state = InitialState
  /\ SeenCalls(calls) = <<<<"state", InitialState>>>>
  /\ enter_count[InitialState] = 1
  /\ Total(exit_count) = 0

\* C5: trigger(event) on an initialized engine with no registered event
\* transition from the current state on that event leaves the current state
\* and every start unchanged and invokes no callback.
C5_IdempotentIgnore ==
  [][(/\ last_op'.op = "trigger"
      /\ m_initialized
      /\ Matching(m_transitions, m_current_state, last_op'.event) = {}) =>
       /\ UNCHANGED EngineFields
       /\ UNCHANGED Counters
       /\ calls' = <<>>
       /\ performed' = <<>>]_vars

\* An unmatched trigger() while a timer of the current state is armed with
\* a start other than the present clock reading.
C5_Witness ==
  /\ last_op.op = "trigger"
  /\ m_initialized
  /\ performed = <<>>
  /\ \E i \in DOMAIN m_timed_transitions :
       /\ m_timed_transitions[i].transition.state_from = m_current_state
       /\ m_timed_transitions[i].start # 0
       /\ m_timed_transitions[i].start # clock

WellFormed(t) == t.state_from \in States /\ t.state_to \in States

C7_NoEarlyFiring ==
  \A i \in DOMAIN performed :
    LET p == performed[i] IN
    p.kind = "timed" =>
      /\ last_op.op = "run_machine"
      /\ p.cur = p.t.state_from
      /\ p.start # 0
      /\ p.since # NoReading
      /\ p.since <= p.now =>
           /\ p.since <= p.start
           /\ p.start <= p.now
           /\ p.now - p.start >= p.interval
           /\ p.now - p.since >= p.interval

\* A timed transition with a positive interval fired out of a state that
\* had been entered by a transition, after that state's timer had been
\* armed in an earlier activation.
C7_Witness ==
  \E i \in DOMAIN performed :
    LET p == performed[i] IN
    /\ p.kind = "timed"
    /\ p.interval > 0
    /\ p.since = p.start
    /\ p.since < p.now
    /\ enter_count[p.cur] >= 2

\* C8: when a transition makes S the current state at clock reading t,
\* then on return of the enclosing trigger() / run_machine() every timed
\* transition whose from is S is armed with start = t.
C8_RearmedOnEntry ==
  \A i \in DOMAIN performed :
    LET p == performed[i] IN
    \A j \in DOMAIN m_timed_transitions :
      LET tt == m_timed_transitions[j] IN
      tt.transition.state_from = p.t.state_to =>
        tt.start # 0 /\ tt.start = p.now

\* C9: in a run_machine() that starts with S current, entered at reading t
\* (clock not wrapped since), every timed transition T out of S that was
\* registered when S was entered and for which at least its interval has
\* passed since t is performed in this call, unless an earlier-registered
\* timed transition moved the engine first.
C9_FiresWhenDue ==
  [][(last_op'.op = "run_machine" /\ m_initialized) =>
       \A i \in DOMAIN m_timed_transitions :
         LET tt == m_timed_transitions[i] IN
         (/\ tt.transition.state_from = m_current_state
          /\ i <= regs_at_entry
          /\ entered_at <= clock
          /\ clock - entered_at >= tt.interval
          /\ \A k \in DOMAIN performed' : performed'[k].idx >= i)
         => \E k \in DOMAIN performed' : performed'[k].idx = i]_vars

ScenarioCounts(idle, running, error) ==
  [s \in States |-> CASE s = "IDLE" -> idle
                      [] s = "RUNNING" -> running
                      [] s = "ERROR" -> error]

\* C10 as stated: the scenario ends in IDLE with exit and enter counts of
\* 2 each for IDLE and 1 each for RUNNING and ERROR.
C10_ScenarioAsStated ==
  pc = 5 =>
    /\ m_current_state = "IDLE"
    /\ enter_count = ScenarioCounts(2, 1, 1)
    /\ exit_count = ScenarioCounts(2, 1, 1)

\* The reading millis() gave when trigger(START) ran, seen from the end.
ReadingAtStart == (clock - 1000) % Modulus

\* C10 amended: the scenario ends in IDLE with enter counts 2, 1, 1 and
\* exit counts 1, 1, 1 for IDLE, RUNNING, ERROR when the clock did not read
\* 0 at trigger(START); when it read 0 the timer armed on entering RUNNING
\* passes for unarmed, the second run() only arms it and the scenario ends
\* in RUNNING with enter counts 1, 1, 0 and exit counts 1, 0, 0.
C10_Scenario ==
  pc = 5 =>
    IF ReadingAtStart # 0
    THEN /\ m_current_state = "IDLE"
         /\ enter_count = ScenarioCounts(2, 1, 1)
         /\ exit_count = ScenarioCounts(1, 1, 1)
    ELSE /\ m_current_state = "RUNNING"
         /\ enter_count = ScenarioCounts(1, 1, 0)
         /\ exit_count = ScenarioCounts(1, 0, 0)

\* The scenario ran to its end, the 1000 ms having wrapped the clock.
C10_Witness ==
  /\ pc = 5
  /\ last_op.op = "trigger"
  /\ m_current_state = "IDLE"
  /\ Len(performed) = 1
  /\ clock < 1000

\* Positions of the ticks in the log of the last operation.
Ticks(cs) == {i \in DOMAIN cs : cs[i].cb = "state"}

\* C11: every run_machine() ticks exactly once, the state that was current
\* when it was called, right after the initial enter on the first call and
\* before any callback of a timed transition; a state reached by timed
\* expiry in this call is not ticked in it; trigger() and the registration
\* functions never tick.
C11_TickOncePerRun ==
  [][/\ last_op'.op = "run_machine" =>
          LET at == IF m_initialized THEN 1 ELSE 2 IN
          /\ Ticks(calls') = {at}
          /\ calls'[at].on = m_current_state
          /\ calls'[at].cur = m_current_state
          /\ Len(calls') > at => performed' # <<>>
          /\ SeenCalls(SubSeq(calls', at + 1, Len(calls')))
               = ProtocolCalls(performed')
     /\ last_op'.op # "run_machine" => Ticks(calls') = {}]_vars

\* A run_machine() that ticked one state and left another one current.
C11_Witness ==
  /\ last_op.op = "run_machine"
  /\ performed # <<>>
  /\ Cardinality(Ticks(calls)) = 1
  /\ \A i \in Ticks(calls) : calls[i].on # m_current_state
  /\ enter_count[m_current_state] >= 1

\* The transitions performed after the k-th one in the same operation.
LaterPerformed(ps, k) == {j \in DOMAIN ps : j > k}

RECURSIVE ProtocolObserved(_)
ProtocolObserved(ps) ==
  IF ps = <<>> THEN <<>>
  ELSE LET t == ps[1].t IN
       <<<<"exit", t.state_from, t.state_from>>>>
       \o (IF t.on_transition # Null
           THEN <<<<"transition", t.on_transition, t.state_from>>>> ELSE <<>>)
       \o <<<<"enter", t.state_to, t.state_from>>>>
       \o ProtocolObserved(Tail(ps))

Observed(cs) == [i \in DOMAIN cs |-> <<cs[i].cb, cs[i].on, cs[i].cur>>]

Fired(ps) == {ps[k].idx : k \in {j \in DOMAIN ps : ps[j].kind = "timed"}}

\* C13: in make_transition m_current_state is assigned after enter of the to
\* state returned and before reset_timers: exit of the from state, the action
\* and enter of the to state all see the old state as current; afterwards the
\* to state is current, and the timers re-armed are those out of the to
\* state (a trigger() arms exactly those; a run_machine() leaves each of
\* them that did not fire in this call armed at the current reading).
C13_CommitAfterEnter ==
  [][/\ Observed(SubSeq(calls', IF last_op'.op = "run_machine"
                                THEN (IF m_initialized THEN 2 ELSE 3)
                                ELSE 1, Len(calls')))
          = ProtocolObserved(performed')
     /\ performed' # <<>> =>
          /\ m_current_state' = performed'[Len(performed')].t.state_to
          /\ \A i \in DOMAIN m_timed_transitions :
               LET from == m_timed_transitions[i].transition.state_from
                   entered == \E k \in DOMAIN performed' :
                                performed'[k].t.state_to = from
               IN /\ (entered /\ i \notin Fired(performed')) =>
                        m_timed_transitions'[i].start = clock
                  /\ (~entered /\ last_op'.op = "trigger") =>
                        m_timed_transitions'[i].start
                          = m_timed_transitions[i].start]_vars

\* trigger() moved to another state: its enter still saw the old state, and
\* a timer out of the new state was armed while one out of the old state kept
\* its start.
C13_Witness ==
  /\ last_op.op = "trigger"
  /\ Len(performed) = 1
  /\ performed[1].t.state_from # performed[1].t.state_to
  /\ performed[1].t.on_transition # Null
  /\ m_current_state = performed[1].t.state_to
  /\ \A i \in DOMAIN calls : calls[i].cur = performed[1].t.state_from
  /\ clock # 0
  /\ \E i \in DOMAIN m_timed_transitions :
       /\ m_timed_transitions[i].transition.state_from = m_current_state
       /\ m_timed_transitions[i].start = clock
  /\ \E i \in DOMAIN m_timed_transitions :
       /\ m_timed_transitions[i].transition.state_from = performed[1].t.state_from
       /\ m_timed_transitions[i].start \notin {0, clock}

\* The entries an accepted registration with these endpoints can store.
EventEntries(from, to, event) ==
  {[state_from |-> a[1], state_to |-> a[2], event |-> a[3],
    on_transition |-> a[4]] :
     a \in {b \in TransitionArgs : b[1] = from /\ b[2] = to /\ b[3] = event}}

TimedEntries(from, to) ==
  {[transition |-> [state_from |-> a[1], state_to |-> a[2], event |-> 0,
                    on_transition |-> a[4]],
    start |-> 0, interval |-> a[3]] :
     a \in {b \in TimedArgs : b[1] = from /\ b[2] = to}}

Registered(list) ==
  [i \in DOMAIN list |-> <<list[i].transition, list[i].interval>>]

\* C14: an accepted add_transition appends exactly its entry at the tail of
\* m_transitions and an accepted add_timed_transition appends exactly its
\* entry, with start 0 and event 0, at the tail of m_timed_transitions; the
\* other list and all earlier entries stay as they were; a rejected
\* registration changes neither list; no other operation adds, removes,
\* reorders or rewrites an entry (only start of a timed entry may change).
C14_AppendAtTail ==
  [][/\ (last_op'.op = "add_transition" /\ last_op'.ok) =>
          /\ \E n \in EventEntries(last_op'.from, last_op'.to, last_op'.event) :
               m_transitions' = Append(m_transitions, n)
          /\ m_timed_transitions' = m_timed_transitions
     /\ (last_op'.op = "add_timed_transition" /\ last_op'.ok) =>
          /\ \E n \in TimedEntries(last_op'.from, last_op'.to) :
               m_timed_transitions' = Append(m_timed_transitions, n)
          /\ m_transitions' = m_transitions
     /\ ~(last_op'.op \in {"add_transition", "add_timed_transition"}
          /\ last_op'.ok) =>
          /\ m_transitions' = m_transitions
          /\ Registered(m_timed_transitions')
               = Registered(m_timed_transitions)]_vars

\* An accepted add_transition put its entry behind a different one that was
\* registered before it, with a timed entry registered as well.
C14_Witness ==
  /\ last_op.op = "add_transition"
  /\ last_op.ok
  /\ Len(m_transitions) = 2
  /\ m_transitions[1] # m_transitions[2]
  /\ m_transitions[2] \in EventEntries(last_op.from, last_op.to, last_op.event)
  /\ m_transitions[1] \notin EventEntries(last_op.from, last_op.to, last_op.event)
  /\ Len(m_timed_transitions) = 1

\* Time since the first reading of a behaviour, which is 0 or Modulus - 1:
\* the host stops advancing the clock at MaxClock, so the counter passes
\* its wrap at most once and a reading above MaxClock precedes the wrap.
Uptime(r) == IF r > MaxClock THEN r - Modulus ELSE r

\* The reading at which timed entry i was last armed, as far as the state
\* tells: a nonzero start is that reading; a start of 0 on a timer out of the
\* current state, registered when the state was entered at reading 0 and not
\* a self-loop (so it has not fired since), was written at reading 0.
ArmedAt(i) ==
  LET tt == m_timed_transitions[i] IN
  IF tt.start # 0 THEN tt.start
  ELSE IF /\ tt.transition.state_from = m_current_state
          /\ tt.transition.state_from # tt.transition.state_to
          /\ m_initialized
          /\ i <= regs_at_entry
          /\ entered_at = 0
       THEN 0
       ELSE NoReading

\* The timed entries a run_machine() step tests against the state and the
\* start they had when it was called: out of the current state, with no
\* transition performed ahead of them in the scan.
Evaluated ==
  {i \in DOMAIN m_timed_transitions :
     /\ m_timed_transitions[i].transition.state_from = m_current_state
     /\ \A k \in DOMAIN performed' : performed'[k].idx >= i}

FiredNow(i) == \E k \in DOMAIN performed' : performed'[k].idx = i

\* A timer whose start holds a nonzero reading fires iff the time truly
\* elapsed since that reading is at least its interval, wrapped or not.
WrapSafeNonzeroStart ==
  [][(last_op'.op = "run_machine" /\ m_initialized) =>
       \A i \in Evaluated :
         m_timed_transitions[i].start # 0 =>
           /\ Elapsed(clock, m_timed_transitions[i].start)
                = Uptime(clock) - Uptime(m_timed_transitions[i].start)
           /\ FiredNow(i) <=>
                Uptime(clock) - Uptime(m_timed_transitions[i].start)
                  >= m_timed_transitions[i].interval]_vars

\* C15: with the clock a counter that wraps modulo Modulus, a timed
\* transition armed at reading start and tested by run_machine() at reading
\* now, after true elapsed time e < Modulus, fires iff e >= interval, also
\* when the counter wrapped in between (now < start).
C15_WrapSafeExpiry ==
  [][(last_op'.op = "run_machine" /\ m_initialized) =>
       \A i \in Evaluated :
         ArmedAt(i) # NoReading =>
           (FiredNow(i) <=>
              Uptime(clock) - Uptime(ArmedAt(i))
                >= m_timed_transitions[i].interval)]_vars

\* C16: a run_machine() in which no timed transition fires leaves the
\* current state and both lists as they were, except that every unarmed
\* timed transition out of the current state gets start = the current
\* reading; timers out of other states and armed timers keep their start,
\* and no exit, action or enter runs apart from the initial enter.
C16_QuietRunFrame ==
  [][(last_op'.op = "run_machine" /\ performed' = <<>>) =>
       /\ m_current_state' = m_current_state
       /\ m_transitions' = m_transitions
       /\ m_timed_transitions'
            = [i \in DOMAIN m_timed_transitions |->
                 LET tt == m_timed_transitions[i] IN
                 IF tt.transition.state_from = m_current_state /\ tt.start = 0
                 THEN [tt EXCEPT !.start = clock]
                 ELSE tt]
       /\ exit_count' = exit_count
       /\ enter_count' = IF m_initialized THEN enter_count
                         ELSE [enter_count EXCEPT ![m_current_state] = @ + 1]
    ]_vars

\* A run_machine() fired nothing: it armed a timer out of the current state
\* at a nonzero reading while an unarmed timer out of another state stayed
\* unarmed.
C16_Witness ==
  /\ last_op.op = "run_machine"
  /\ performed = <<>>
  /\ clock # 0
  /\ enter_count[m_current_state] >= 2
  /\ \E i \in DOMAIN m_timed_transitions :
       /\ m_timed_transitions[i].transition.state_from = m_current_state
       /\ m_timed_transitions[i].start = clock
  /\ \E i \in DOMAIN m_timed_transitions :
       /\ m_timed_transitions[i].transition.state_from # m_current_state
       /\ m_timed_transitions[i].start = 0

\* C17: for every state, enter invocations minus exit invocations is 1 when
\* the engine is initialized and the state is current, and 0 otherwise: no
\* state is exited without having been entered, and none is entered twice
\* without an exit in between.
C17_EnterExitBalance ==
  \A s \in States :
    enter_count[s] - exit_count[s]
      = IF m_initialized /\ s = m_current_state THEN 1 ELSE 0

\* The initial state was left and entered again, and another state was
\* entered and left in between.
C17_Witness ==
  /\ m_initialized
  /\ m_current_state = InitialState
  /\ enter_count[InitialState] = 2
  /\ exit_count[InitialState] = 1
  /\ \E s \in States \ {InitialState} :
       enter_count[s] = 1 /\ exit_count[s] = 1

\* The state a transition of ps was selected in: the previous one's to state.
Chained(ps, cur) ==
  \A k \in DOMAIN ps :
    /\ ps[k].cur = (IF k = 1 THEN cur ELSE ps[k - 1].t.state_to)
    /\ ps[k].t.state_from = ps[k].cur

\* C18: the current state changes only by performed transitions, each along
\* a registered edge of the right kind: trigger(e) performs only an entry of
\* m_transitions with from = the current state and event = e, run_machine()
\* only entries of m_timed_transitions with from = the then current state;
\* so trigger(0) never performs a timed transition (stored with event 0, in
\* the timed list only), run_machine() never an event transition, and no
\* other operation changes the current state.
C18_RegisteredEdgesOnly ==
  [][/\ m_current_state' = (IF performed' = <<>> THEN m_current_state
                            ELSE performed'[Len(performed')].t.state_to)
     /\ Chained(performed', m_current_state)
     /\ performed' # <<>> => last_op'.op \in {"trigger", "run_machine"}
     /\ last_op'.op = "trigger" =>
          \A k \in DOMAIN performed' :
            LET p == performed'[k] IN
            /\ p.kind = "event"
            /\ p.idx \in DOMAIN m_transitions
            /\ m_transitions[p.idx] = p.t
            /\ p.t.event = last_op'.event
     /\ last_op'.op = "run_machine" =>
          \A k \in DOMAIN performed' :
            LET p == performed'[k] IN
            /\ p.kind = "timed"
            /\ p.idx \in DOMAIN m_timed_transitions
            /\ m_timed_transitions[p.idx].transition = p.t]_vars

\* trigger(0) on an initialized engine whose current state has a timed
\* transition (stored with event 0) and no event transition for 0: nothing
\* is performed.
C18_Witness ==
  /\ last_op.op = "trigger"
  /\ last_op.event = 0
  /\ m_initialized
  /\ performed = <<>>
  /\ Matching(m_transitions, m_current_state, 0) = {}
  /\ m_transitions # <<>>
  /\ \E i \in DOMAIN m_timed_transitions :
       /\ m_timed_transitions[i].transition.state_from = m_current_state
       /\ m_timed_transitions[i].transition.event = 0
       /\ m_timed_transitions[i].start # 0

\* The transitions of this step performed ahead of timed entry i in the scan.
Ahead(i) == {k \in DOMAIN performed' : performed'[k].idx < i}

\* The state timed entry i is compared with: where the last transition
\* performed ahead of it led, else the state current at the call.
StateAt(i) ==
  IF Ahead(i) = {} THEN m_current_state
  ELSE performed'[CHOOSE k \in Ahead(i) : \A j \in Ahead(i) : j <= k].t.state_to

\* The start timed entry i is tested with: the current reading if a
\* transition performed ahead of it entered its from state, else its start
\* at the call.
StartAt(i) ==
  IF \E k \in Ahead(i) :
       performed'[k].t.state_to = m_timed_transitions[i].transition.state_from
  THEN clock
  ELSE m_timed_transitions[i].start

\* C19: check_timed_transitions walks the whole timed list in registration
\* order and tests each entry against the state current when the scan
\* reaches it, so after a transition fired the later-registered entries are
\* tested against the new state (with the start the re-arm gave them) and
\* one run_machine() can perform several transitions; the performed ones
\* are in strictly increasing registration order, so none registered
\* earlier than one that fired is performed after it, and there are at most
\* as many as registered timed transitions.
C19_ScanContinues ==
  [][last_op'.op = "run_machine" =>
       /\ Len(performed') <= Len(m_timed_transitions)
       /\ \A k \in DOMAIN performed' :
            k > 1 => performed'[k - 1].idx < performed'[k].idx
       /\ \A i \in DOMAIN m_timed_transitions :
            FiredNow(i) <=>
              /\ m_timed_transitions[i].transition.state_from = StateAt(i)
              /\ StartAt(i) # 0
              /\ Elapsed(clock, StartAt(i))
                   >= m_timed_transitions[i].interval]_vars

\* One run_machine() performed two transitions: the second, registered
\* later with interval 0, left the state the first one had just entered.
C19_Witness ==
  /\ last_op.op = "run_machine"
  /\ Len(performed) = 2
  /\ performed[1].idx < performed[2].idx
  /\ performed[2].interval = 0
  /\ performed[2].cur = performed[1].t.state_to
  /\ performed[1].t.state_from # performed[1].t.state_to
  /\ performed[2].start = performed[2].now
  /\ m_current_state = performed[2].t.state_to

\* C20: a start of 0 means unarmed even when it was written as the reading
\* 0: a timed transition out of the current state that was armed while the
\* clock read 0 is not tested for expiry by the next run_machine(), which
\* writes the current reading into its start instead; every transition that
\* fires was tested with a nonzero start and at least interval after it,
\* hence, the clock not having wrapped since the state was entered, at
\* least interval after that later reading and after entry.
C20_ZeroReadingIsUnarmed ==
  [][last_op'.op = "run_machine" =>
       /\ \A i \in Evaluated :
            m_timed_transitions[i].start = 0 =>
              /\ ~FiredNow(i)
              /\ m_timed_transitions'[i].start = clock
       /\ \A k \in DOMAIN performed' :
            LET p == performed'[k] IN
            /\ p.start # 0
            /\ Elapsed(p.now, p.start) >= p.interval
            /\ (p.since <= p.start /\ p.start <= p.now) =>
                  p.now >= p.start + p.interval]_vars

\* A timer out of the current state was armed on entry at reading 0; a
\* run_machine() at a later reading, with its interval already elapsed since
\* entry, fired nothing and left the timer armed at that later reading.
C20_Witness ==
  /\ last_op.op = "run_machine"
  /\ performed = <<>>
  /\ entered_at = 0
  /\ clock # 0
  /\ enter_count[m_current_state] >= 2
  /\ \E i \in DOMAIN m_timed_transitions :
       LET tt == m_timed_transitions[i] IN
       /\ tt.transition.state_from = m_current_state
       /\ tt.transition.state_from # tt.transition.state_to
       /\ i <= regs_at_entry
       /\ tt.interval > 0
       /\ clock - entered_at >= tt.interval
       /\ tt.start = clock

====
